---- MODULE Spec2Model ----
(***************************************************************************)
(* A model of the GBCE stock exchange of stock_factory.py and              *)
(* stock_market_ops.py: the Stock objects and their trade ledgers, the     *)
(* StockOps calculations, and the StockMarket registry with its All Share  *)
(* Index.                                                                  *)
(*                                                                         *)
(* Numbers are exact rationals n/d in lowest terms (Python's float         *)
(* rounding is abstracted away).  Time is counted in minutes.  Every       *)
(* coroutine of the source suspends once (asyncio.sleep(0)) before its     *)
(* body and then runs its body without suspending, so one action is one    *)
(* body; get_all_share_index, which gathers one task per stock, is a       *)
(* process of several steps.                                               *)
(***************************************************************************)
EXTENDS Integers, Sequences, FiniteSets

VARIABLES heap, market, now, idx, last

vars == <<heap, market, now, idx, last>>

----------------------------------------------------------------------------
(* Bounds of the model. *)

MaxTrades == 2
MaxTime == 6

----------------------------------------------------------------------------
(* Python values: numbers, None and float('inf'). *)

RECURSIVE GCD(_, _)
GCD(a, b) == IF b = 0 THEN a ELSE GCD(b, a % b)

Abs(x) == IF x < 0 THEN -x ELSE x

Num(n, d) ==
    LET g == GCD(Abs(n), Abs(d))
        s == IF d < 0 THEN -1 ELSE 1
    IN  [t |-> "num", n |-> (s * n) \div g, d |-> (s * d) \div g, k |-> 1]

IntV(n) == Num(n, 1)

NoneV == [t |-> "None", n |-> 0, d |-> 1, k |-> 1]

InfV == [t |-> "inf", n |-> 1, d |-> 1, k |-> 1]

IsNum(v) == v.t = "num"

Mul(a, b) == Num(a.n * b.n, a.d * b.d)

\* a / b for b # 0
Div(a, b) == Num(a.n * b.d, a.d * b.n)

\* x ** (1 / k): the k-th root of the number x, kept exact
Root(x, k) == IF k = 1 THEN x ELSE [t |-> "root", n |-> x.n, d |-> x.d, k |-> k]

Gt0(v) == v.t \in {"num", "root", "inf"} /\ v.n > 0

\* Python truthiness of a number or None
Truthy(v) == v.t # "None" /\ v.n # 0

(* What a call gives its caller: a returned value or a raised exception,
   and the level of the message it logged. *)
Return(v, lg) == [kind |-> "return", val |-> v, exc |-> "", log |-> lg]

Raise(e, lg) == [kind |-> "raise", val |-> NoneV, exc |-> e, log |-> lg]

----------------------------------------------------------------------------
(* stock_factory.py *)

\* Stock.__init__: the fields of a new stock and its empty deque of trades
Stock(cls, symbol, stock_type, last_dividend, par_value, fixed_dividend) ==
    [cls |-> cls, symbol |-> symbol, stock_type |-> stock_type,
     last_dividend |-> last_dividend, fixed_dividend |-> fixed_dividend,
     par_value |-> par_value, trades |-> <<>>]

\* StockFactory.create_stock: args = <<symbol, stock_type, last_dividend,
\* par_value, fixed_dividend>>
create_stock(args) ==
    IF args[2] = "Common"
    THEN [ok |-> TRUE, exc |-> "",
          stock |-> Stock("CommonStock", args[1], args[2], args[3], args[4], args[5])]
    ELSE IF args[2] = "Preferred"
    THEN [ok |-> TRUE, exc |-> "",
          stock |-> Stock("PreferredStock", args[1], args[2], args[3], args[4], args[5])]
    ELSE [ok |-> FALSE, exc |-> "ValueError",
          stock |-> Stock("", args[1], args[2], args[3], args[4], args[5])]

CommonStock_calculate_dividend_yield(self, price) ==
    IF price > 0
    THEN Return(Div(IntV(self.last_dividend), IntV(price)), "none")
    ELSE Return(IntV(0), "none")

\* mutant: the preferred yield taken from last_dividend, as for a common stock
PreferredStock_yield_from_last_dividend(self, price) ==
    IF price > 0
    THEN Return(Div(IntV(self.last_dividend), IntV(price)), "none")
    ELSE Return(IntV(0), "none")

PreferredStock_calculate_dividend_yield(self, price) ==
    IF price > 0
    THEN IF self.fixed_dividend = NoneV
         THEN Raise("TypeError", "none")      \* None * par_value
         ELSE Return(Div(Mul(self.fixed_dividend, IntV(self.par_value)), IntV(price)),
                     "none")
    ELSE Return(IntV(0), "none")

\* stock.calculate_dividend_yield(price), dispatched on the stock's class
Stock_calculate_dividend_yield(self, price) ==
    IF self.cls = "CommonStock"
    THEN CommonStock_calculate_dividend_yield(self, price)
    ELSE PreferredStock_calculate_dividend_yield(self, price)

----------------------------------------------------------------------------
(* stock_market_ops.py: StockOps *)

\* The StockOps instance: StockOps.__init__ sets no attribute.
StockOpsObject == [cls |-> "StockOps"]

HasStockAttributes(self) == self.cls # "StockOps"

(* StockOps.calculate_dividend_yield(self, price).  It reads self.stock_type,
   self.last_dividend, ... and, in its handler, self.symbol: on the StockOps
   instance every path ends in the handler, whose message raises
   AttributeError; called with a stock as self it computes the yield. *)
StockOps_calculate_dividend_yield(self, price) ==
    IF ~HasStockAttributes(self)
    THEN Raise("AttributeError", "none")
    ELSE IF price <= 0
    THEN Return(NoneV, "error")
    ELSE IF self.stock_type = "Common"
    THEN Return(Div(IntV(self.last_dividend), IntV(price)), "none")
    ELSE IF self.stock_type = "Preferred" /\ self.fixed_dividend # NoneV
    THEN Return(Div(Mul(self.fixed_dividend, IntV(self.par_value)), IntV(price)),
                "none")
    ELSE Return(NoneV, "error")

calculate_pe_ratio(price, stock) ==
    IF stock.last_dividend = 0
    THEN Return(InfV, "warning")
    ELSE Return(Div(IntV(price), IntV(stock.last_dividend)), "none")

\* mutant: the validation lets zero through (< for <=)
record_trade_zero_allowed(stock, quantity, trade_type, price, t) ==
    IF quantity < 0 \/ price < 0
    THEN [stock |-> stock, out |-> Return(NoneV, "error")]
    ELSE IF trade_type \notin {"BUY", "SELL"}
    THEN [stock |-> stock, out |-> Return(NoneV, "error")]
    ELSE [stock |-> [stock EXCEPT !.trades =
                        Append(@, <<t, quantity, trade_type, price>>)],
          out |-> Return(NoneV, "info")]

\* mutant: deque.appendleft for deque.append
record_trade_appendleft(stock, quantity, trade_type, price, t) ==
    IF quantity <= 0 \/ price <= 0
    THEN [stock |-> stock, out |-> Return(NoneV, "error")]
    ELSE IF trade_type \notin {"BUY", "SELL"}
    THEN [stock |-> stock, out |-> Return(NoneV, "error")]
    ELSE [stock |-> [stock EXCEPT !.trades =
                        <<(<<t, quantity, trade_type, price>>)>> \o @],
          out |-> Return(NoneV, "info")]

(* record_trade(stock, quantity, trade_type, price) at wall-clock time t:
   the stock afterwards and what the caller gets. *)
record_trade(stock, quantity, trade_type, price, t) ==
    IF quantity <= 0 \/ price <= 0
    THEN [stock |-> stock, out |-> Return(NoneV, "error")]
    ELSE IF trade_type \notin {"BUY", "SELL"}
    THEN [stock |-> stock, out |-> Return(NoneV, "error")]
    ELSE [stock |-> [stock EXCEPT !.trades =
                        Append(@, <<t, quantity, trade_type, price>>)],
          out |-> Return(NoneV, "info")]

Window == 5

\* mutant: the window's lower bound exclusive (> for >=)
RECURSIVE relevant_trades_exclusive(_, _)
relevant_trades_exclusive(trades, past_five_minutes) ==
    IF trades = <<>> THEN <<>>
    ELSE LET tr == Head(trades)
             rest == relevant_trades_exclusive(Tail(trades), past_five_minutes)
         IN  IF tr[1] > past_five_minutes
             THEN <<(<<tr[2], tr[4]>>)>> \o rest
             ELSE rest

\* [(qty, price) for ts, qty, _, price in stock.trades if ts >= past_five_minutes]
RECURSIVE relevant_trades(_, _)
relevant_trades(trades, past_five_minutes) ==
    IF trades = <<>> THEN <<>>
    ELSE LET tr == Head(trades)
             rest == relevant_trades(Tail(trades), past_five_minutes)
         IN  IF tr[1] >= past_five_minutes
             THEN <<(<<tr[2], tr[4]>>)>> \o rest
             ELSE rest

\* sum(qty * price for qty, price in relevant_trades)
RECURSIVE total_price_qty(_)
total_price_qty(rel) ==
    IF rel = <<>> THEN 0 ELSE rel[1][1] * rel[1][2] + total_price_qty(Tail(rel))

\* mutant: every trade weighs as much as the first one
total_qty_of_first(rel) ==
    IF rel = <<>> THEN 0 ELSE rel[1][1] * Len(rel)

\* sum(qty for qty, _ in relevant_trades)
RECURSIVE total_qty(_)
total_qty(rel) ==
    IF rel = <<>> THEN 0 ELSE rel[1][1] + total_qty(Tail(rel))

calculate_volume_weighted_stock_price(stock, t) ==
    LET rel == relevant_trades(stock.trades, t - Window)
    IN  IF rel = <<>>
        THEN Return(IntV(0), "warning")
        ELSE IF total_qty(rel) # 0
        THEN Return(Div(IntV(total_price_qty(rel)), IntV(total_qty(rel))), "none")
        ELSE Return(IntV(0), "none")

----------------------------------------------------------------------------
(* stock_market_ops.py: StockMarket.  self.stocks is a dict: a sequence of
   entries in insertion order, one per key; its values are references to
   stock objects (indices into heap). *)

DictKeys(d) == {d[i].key : i \in 1..Len(d)}

DictGet(d, key) == (CHOOSE i \in 1..Len(d) : d[i].key = key)

\* d[key] = val: an existing key keeps its place
DictSet(d, key, val) ==
    IF key \in DictKeys(d)
    THEN [d EXCEPT ![DictGet(d, key)].val = val]
    ELSE Append(d, [key |-> key, val |-> val])

\* list(d.values())
DictValues(d) == [i \in 1..Len(d) |-> d[i].val]

\* mutant: the registry is rebuilt with the new stock alone
add_stock_alone(stocks, objects, ref) ==
    IF ref = 0
    THEN [stocks |-> stocks, out |-> Return(NoneV, "error")]
    ELSE [stocks |-> <<[key |-> objects[ref].symbol, val |-> ref]>>,
          out |-> Return(NoneV, "info")]

\* add_stock(stock): ref = 0 stands for an object that is not a Stock
add_stock(stocks, objects, ref) ==
    IF ref = 0
    THEN [stocks |-> stocks, out |-> Return(NoneV, "error")]
    ELSE [stocks |-> DictSet(stocks, objects[ref].symbol, ref),
          out |-> Return(NoneV, "info")]

\* [p for p in prices if p and p > 0]
RECURSIVE valid_prices(_)
valid_prices(prices) ==
    IF prices = <<>> THEN <<>>
    ELSE IF Truthy(Head(prices)) /\ Gt0(Head(prices))
         THEN <<Head(prices)>> \o valid_prices(Tail(prices))
         ELSE valid_prices(Tail(prices))

\* math.prod(prices)
RECURSIVE prod(_)
prod(prices) ==
    IF prices = <<>> THEN IntV(1) ELSE Mul(Head(prices), prod(Tail(prices)))

\* mutant: the root's degree counts the discarded results too
all_share_index_of_all(results) ==
    LET prices == valid_prices(results)
    IN  IF prices = <<>>
        THEN Return(IntV(0), "warning")
        ELSE Return(Root(prod(prices), Len(results)), "none")

\* get_all_share_index, from the results its gathered tasks returned
all_share_index(results) ==
    LET prices == valid_prices(results)
    IN  IF prices = <<>>
        THEN Return(IntV(0), "warning")
        ELSE Return(Root(prod(prices), Len(prices)), "none")

----------------------------------------------------------------------------
(* Inputs *)

\* main's sample stocks POP and GIN, and a second stock created as "POP"
SampleStocks ==
    << create_stock(<<"POP", "Common", 8, 100, NoneV>>).stock,
       create_stock(<<"GIN", "Preferred", 8, 100, Num(2, 100)>>).stock,
       create_stock(<<"POP", "Common", 23, 60, NoneV>>).stock >>

\* create_stock arguments for the yield and ratio calculations
CalcStockArgs ==
    { <<sym, ty, ld, par, fd>> :
        sym \in {"TEA"}, ty \in {"Common", "Preferred"}, ld \in {0, 8},
        par \in {60, 100}, fd \in {NoneV, Num(2, 100)} }

\* record_trade arguments <<quantity, trade_type, price>>
TradeArgs ==
    { <<200, "BUY", 150>>, <<50, "SELL", 125>>,
      <<0, "BUY", 10>>, <<50, "BUY", 0>>, <<-5, "SELL", -1>>,
      <<50, "HOLD", 125>> }

\* the price given to the yield and ratio calculations
Prices == {-10, 0, 50, 100}

NoArgs == [quantity |-> 0, trade_type |-> "", price |-> 0]

PriceArg(price) == [quantity |-> 0, trade_type |-> "", price |-> price]

TradeArg(a) == [quantity |-> a[1], trade_type |-> a[2], price |-> a[3]]

\* the record of a call: the operation, the object it was given (0: none,
\* or the StockOps instance), its arguments and its outcome
Call(op, obj, args, out) == [op |-> op, obj |-> obj, args |-> args, out |-> out]

NoCall == Call("none", 0, NoArgs, Return(NoneV, "none"))

RECURSIVE SumLen(_, _)
SumLen(objects, i) ==
    IF i = 0 THEN 0 ELSE Len(objects[i].trades) + SumLen(objects, i - 1)

NTrades == SumLen(heap, Len(heap))

----------------------------------------------------------------------------
(* Actions.  last holds the outcome of the call whose body ran last, until
   its caller has taken it. *)

InitWith(objects) ==
    /\ heap = objects
    /\ market = <<>>
    /\ now = 0
    /\ idx = [pc |-> "idle", stocks |-> <<>>, results |-> <<>>]
    /\ last = NoCall

\* main's stocks POP and GIN, not yet registered
Init == InitWith(SubSeq(SampleStocks, 1, 2))

\* the three stocks, two of them with the symbol POP
InitMarket == InitWith(SampleStocks)

\* one stock, any of CalcStockArgs
InitCalc == \E args \in CalcStockArgs : InitWith(<<create_stock(args).stock>>)

\* the caller's await takes the outcome
Await ==
    /\ last # NoCall
    /\ last' = NoCall
    /\ UNCHANGED <<heap, market, now, idx>>

AddStock ==
    /\ last = NoCall
    /\ \E ref \in 0..Len(heap) :
        LET r == add_stock(market, heap, ref)
        IN  /\ market' = r.stocks
            /\ last' = Call("add_stock", ref, NoArgs, r.out)
            /\ UNCHANGED <<heap, now, idx>>

RecordTrade ==
    /\ last = NoCall
    /\ \E ref \in 1..Len(heap), a \in TradeArgs :
        LET r == record_trade(heap[ref], a[1], a[2], a[3], now)
        IN  /\ r.stock # heap[ref] => NTrades < MaxTrades
            /\ heap' = [heap EXCEPT ![ref] = r.stock]
            /\ last' = Call("record_trade", ref, TradeArg(a), r.out)
            /\ UNCHANGED <<market, now, idx>>

DividendYield ==
    /\ last = NoCall
    /\ \E ref \in 1..Len(heap), price \in Prices :
        /\ last' = Call("dividend_yield", ref, PriceArg(price),
                        Stock_calculate_dividend_yield(heap[ref], price))
        /\ UNCHANGED <<heap, market, now, idx>>

OpsDividendYield ==
    /\ last = NoCall
    /\ \E ref \in 0..Len(heap), price \in Prices :
        /\ last' = Call("ops_dividend_yield", ref, PriceArg(price),
                        StockOps_calculate_dividend_yield(
                            IF ref = 0 THEN StockOpsObject ELSE heap[ref], price))
        /\ UNCHANGED <<heap, market, now, idx>>

PeRatio ==
    /\ last = NoCall
    /\ \E ref \in 1..Len(heap), price \in Prices :
        /\ last' = Call("pe_ratio", ref, PriceArg(price),
                        calculate_pe_ratio(price, heap[ref]))
        /\ UNCHANGED <<heap, market, now, idx>>

Vwsp ==
    /\ last = NoCall
    /\ \E ref \in 1..Len(heap) :
        /\ last' = Call("vwsp", ref, NoArgs,
                        calculate_volume_weighted_stock_price(heap[ref], now))
        /\ UNCHANGED <<heap, market, now, idx>>

\* get_all_share_index creates one task per stock of self.stocks.values()
IndexGather ==
    /\ last = NoCall
    /\ idx.pc = "idle"
    /\ idx' = [pc |-> "gather", stocks |-> DictValues(market), results |-> <<>>]
    /\ UNCHANGED <<heap, market, now, last>>

\* the next task's body runs: one calculate_volume_weighted_stock_price
IndexTask ==
    /\ last = NoCall
    /\ idx.pc = "gather"
    /\ Len(idx.results) < Len(idx.stocks)
    /\ idx' = [idx EXCEPT !.results = Append(@,
                 calculate_volume_weighted_stock_price(
                     heap[idx.stocks[Len(idx.results) + 1]], now).val)]
    /\ UNCHANGED <<heap, market, now, last>>

\* all tasks are done: the filter, the product and the root
IndexReturn ==
    /\ last = NoCall
    /\ idx.pc = "gather"
    /\ Len(idx.results) = Len(idx.stocks)
    /\ last' = Call("all_share_index", 0, NoArgs, all_share_index(idx.results))
    /\ idx' = [idx EXCEPT !.pc = "idle"]
    /\ UNCHANGED <<heap, market, now>>

\* the wall clock moves on by a minute
Tick ==
    /\ last = NoCall
    /\ now < MaxTime
    /\ now' = now + 1
    /\ UNCHANGED <<heap, market, idx, last>>

\* the wall clock moves on by more than the window
Sleep ==
    /\ last = NoCall
    /\ now + Window + 1 <= MaxTime
    /\ now' = now + Window + 1
    /\ UNCHANGED <<heap, market, idx, last>>

\* trades and their volume weighted price, minute by minute
Next ==
    \/ RecordTrade
    \/ Vwsp
    \/ Tick
    \/ Await

Spec == Init /\ [][Next]_vars

\* the market of three stocks: registration, trades and the index
NextMarket ==
    \/ AddStock
    \/ RecordTrade
    \/ IndexGather
    \/ IndexTask
    \/ IndexReturn
    \/ Sleep
    \/ Await

SpecMarket == InitMarket /\ [][NextMarket]_vars

\* every operation, on main's stocks POP and GIN
NextAll ==
    \/ AddStock
    \/ RecordTrade
    \/ DividendYield
    \/ OpsDividendYield
    \/ PeRatio
    \/ Vwsp
    \/ IndexGather
    \/ IndexTask
    \/ IndexReturn
    \/ Sleep
    \/ Await

SpecAll == Init /\ [][NextAll]_vars

\* the yield and ratio calculations on one stock
NextCalc ==
    \/ DividendYield
    \/ OpsDividendYield
    \/ PeRatio
    \/ Await

SpecCalc == InitCalc /\ [][NextCalc]_vars

----------------------------------------------------------------------------
(* Properties *)

ValidTrade(quantity, trade_type, price) ==
    quantity > 0 /\ price > 0 /\ trade_type \in {"BUY", "SELL"}

Rejected(call) ==
    /\ call.op = "record_trade"
    /\ ~ValidTrade(call.args.quantity, call.args.trade_type, call.args.price)

\* what the caller of a call can tell from its outcome (not the log)
CallerSees(out) == <<out.kind, out.val, out.exc>>

IsPrefix(a, b) == Len(a) <= Len(b) /\ SubSeq(b, 1, Len(a)) = a

\* the sum of quantity over the trades at the indices S
RECURSIVE QuantityOver(_, _)
QuantityOver(trades, S) ==
    IF S = {} THEN 0
    ELSE LET i == CHOOSE i \in S : TRUE
         IN  trades[i][2] + QuantityOver(trades, S \ {i})

\* the sum of quantity * price over the trades at the indices S
RECURSIVE ValueOver(_, _)
ValueOver(trades, S) ==
    IF S = {} THEN 0
    ELSE LET i == CHOOSE i \in S : TRUE
         IN  trades[i][2] * trades[i][4] + ValueOver(trades, S \ {i})

\* v is the number value / quantity
IsQuotient(v, value, quantity) ==
    IsNum(v) /\ v.n * quantity = value * v.d

Permutations(n) ==
    {f \in [1..n -> 1..n] : \A i, j \in 1..n : f[i] = f[j] => i = j}

\* the product of the results at the indices S
RECURSIVE ProductOver(_, _)
ProductOver(results, S) ==
    IF S = {} THEN IntV(1)
    ELSE LET i == CHOOSE i \in S : TRUE
         IN  Mul(results[i], ProductOver(results, S \ {i}))

(* C1: every trade stored in any stock's ledger has quantity > 0, price > 0
   and a side that is BUY or SELL, whatever record_trade calls were made. *)
C1_StoredTradesValid ==
    \A ref \in 1..Len(heap) : \A i \in 1..Len(heap[ref].trades) :
        LET tr == heap[ref].trades[i]
        IN  tr[2] > 0 /\ tr[4] > 0 /\ tr[3] \in {"BUY", "SELL"}

\* a rejected call has just returned and both accepted trades are in a ledger
C1_Witness ==
    /\ Rejected(last)
    /\ last.args.quantity = 0
    /\ NTrades = 2

(* C2: a rejected record_trade gives its caller an outcome that differs from
   the outcome of a recorded trade (an error the caller receives). *)
C2_RejectionSurfaced ==
    Rejected(last) =>
        CallerSees(last.out)
            # CallerSees(record_trade(heap[last.obj], 200, "BUY", 150, now).out)

(* C3: a dividend yield calculation given a price <= 0 does not return a
   number: it fails, for each of the three implementations. *)
C3_YieldFailsOnNonPositivePrice ==
    (last.op \in {"dividend_yield", "ops_dividend_yield"} /\ last.args.price <= 0)
        => ~(last.out.kind = "return" /\ IsNum(last.out.val))

(* C4: calculate_pe_ratio given a price <= 0 fails with an error, also for a
   stock whose last_dividend is 0. *)
C4_PeRatioFailsOnNonPositivePrice ==
    (last.op = "pe_ratio" /\ last.args.price <= 0) => last.out.kind = "raise"

(* C5: for a price > 0 the dividend yield of a common stock is
   last_dividend / price and that of a preferred stock is
   fixed_dividend * par_value / price, whatever its last_dividend. *)
C5_YieldByVariant ==
    (/\ last.op \in {"dividend_yield", "ops_dividend_yield"}
     /\ last.obj # 0
     /\ last.args.price > 0)
    => LET stock == heap[last.obj]
           fd == stock.fixed_dividend
       IN  /\ stock.stock_type = "Common" =>
                /\ last.out.kind = "return"
                /\ IsQuotient(last.out.val, stock.last_dividend, last.args.price)
           /\ (stock.stock_type = "Preferred" /\ fd # NoneV) =>
                /\ last.out.kind = "return"
                /\ IsQuotient(last.out.val, fd.n * stock.par_value,
                              fd.d * last.args.price)

\* GIN's figures (preferred, fixed 0.02, par 100, last dividend 8) at 100: 0.02
C5_Witness ==
    /\ last.op = "dividend_yield"
    /\ heap[last.obj].stock_type = "Preferred"
    /\ heap[last.obj].fixed_dividend = Num(2, 100)
    /\ heap[last.obj].par_value = 100
    /\ heap[last.obj].last_dividend = 8
    /\ last.args.price = 100
    /\ last.out = Return(Num(2, 100), "none")

(* C6: the volume weighted price at time now is taken over exactly the
   trades of the ledger whose timestamp is >= now - 5 minutes: a trade at
   now - 5 minutes counts, an earlier one does not. *)
C6_WindowInclusive ==
    last.op = "vwsp" =>
        LET trades == heap[last.obj].trades
            S == {i \in 1..Len(trades) : trades[i][1] >= now - 5}
        IN  /\ last.out.kind = "return"
            /\ S = {} => last.out.val = IntV(0)
            /\ S # {} => IsQuotient(last.out.val, ValueOver(trades, S),
                                    QuantityOver(trades, S))

\* a ledger with a trade before the window and one exactly on its bound
C6_Witness ==
    /\ last.op = "vwsp"
    /\ LET trades == heap[last.obj].trades
       IN  /\ Len(trades) = 2
           /\ trades[1][1] < now - 5
           /\ trades[2][1] = now - 5
           /\ trades[1][4] # trades[2][4]
           /\ last.out.val = IntV(trades[2][4])

(* C7: when all trades of a ledger are inside the window, its volume
   weighted price is sum(quantity * price) / sum(quantity), and it is the
   same for every order in which those trades could have been appended. *)
C7_OrderIndependent ==
    \A ref \in 1..Len(heap) :
        LET trades == heap[ref].trades
            n == Len(trades)
        IN  (n > 0 /\ \A i \in 1..n : trades[i][1] >= now - 5) =>
                \A f \in Permutations(n) :
                    LET out == calculate_volume_weighted_stock_price(
                                   [heap[ref] EXCEPT !.trades = [i \in 1..n |-> trades[f[i]]]],
                                   now)
                    IN  /\ out.kind = "return"
                        /\ IsQuotient(out.val, ValueOver(trades, 1..n),
                                      QuantityOver(trades, 1..n))

\* (50 @ 125 SELL) appended before (200 @ 150 BUY): 145
C7_Witness ==
    /\ last.op = "vwsp"
    /\ LET trades == heap[last.obj].trades
       IN  /\ Len(trades) = 2
           /\ <<trades[1][2], trades[1][3], trades[1][4]>> = <<50, "SELL", 125>>
           /\ <<trades[2][2], trades[2][3], trades[2][4]>> = <<200, "BUY", 150>>
    /\ last.out = Return(IntV(145), "none")

(* C8: get_all_share_index takes one result per stock it gathered, discards
   the results that are <= 0 and returns the n-th root of the product of
   the n results left, or 0 (not an error) when none is left. *)
C8_AllShareIndex ==
    last.op = "all_share_index" =>
        LET S == {i \in 1..Len(idx.results) : Gt0(idx.results[i])}
        IN  /\ Len(idx.results) = Len(idx.stocks)
            /\ last.out.kind = "return"
            /\ S = {} => last.out.val = IntV(0)
            /\ S # {} => last.out.val = Root(ProductOver(idx.results, S), Cardinality(S))

\* two stocks gathered, one of them with no trade in the window
C8_Witness ==
    /\ last.op = "all_share_index"
    /\ Len(idx.results) = 2
    /\ \E i, j \in 1..2 :
        /\ idx.results[i] = IntV(0)
        /\ heap[idx.stocks[i]].trades # <<>>
        /\ Gt0(idx.results[j])
        /\ last.out.val = idx.results[j]

SameFields(a, b) ==
    /\ a.cls = b.cls
    /\ a.symbol = b.symbol
    /\ a.stock_type = b.stock_type
    /\ a.last_dividend = b.last_dividend
    /\ a.fixed_dividend = b.fixed_dividend
    /\ a.par_value = b.par_value

(* C9: a step changes a ledger only if it is an accepted record_trade, which
   appends its one trade at the end of its stock's ledger and leaves the
   other ledgers alone; no step changes a stock's fields, and every other
   call leaves every ledger as it was. *)
C9_Frame ==
    [][ /\ Len(heap') = Len(heap)
        /\ \A ref \in 1..Len(heap) : SameFields(heap[ref], heap'[ref])
        /\ (heap' # heap) =>
              /\ last'.op = "record_trade"
              /\ ~Rejected(last')
              /\ \A ref \in 1..Len(heap) :
                    heap'[ref].trades =
                        IF ref = last'.obj
                        THEN Append(heap[ref].trades,
                                    <<now, last'.args.quantity, last'.args.trade_type,
                                      last'.args.price>>)
                        ELSE heap[ref].trades
        /\ (last' # last /\ last'.op = "record_trade" /\ ~Rejected(last')) =>
              Len(heap'[last'.obj].trades) = Len(heap[last'.obj].trades) + 1
        /\ (last' # last /\ (last'.op # "record_trade" \/ Rejected(last'))) =>
              heap' = heap
      ]_vars

\* an accepted trade has just been appended after an earlier one
C9_Witness ==
    /\ last.op = "record_trade"
    /\ ~Rejected(last)
    /\ Len(heap[last.obj].trades) = 2
    /\ heap[last.obj].trades[1][4] # heap[last.obj].trades[2][4]

(* C10, as claimed: the ledger reached through the market's entry of a
   symbol only grows, also across add_stock of a registered symbol. *)
C10_MarketLedgerOnlyGrows ==
    [][ \A i \in 1..Len(market) :
            \E j \in 1..Len(market') :
                /\ market'[j].key = market[i].key
                /\ IsPrefix(heap[market[i].val].trades, heap'[market'[j].val].trades)
      ]_vars

(* C10, amended: the ledger of every stock object only grows; a registered
   symbol stays registered, and its entry refers to another stock object
   only by an add_stock of that object, whose symbol it is. *)
C10_StockLedgerOnlyGrows ==
    [][ /\ \A ref \in 1..Len(heap) : IsPrefix(heap[ref].trades, heap'[ref].trades)
        /\ \A i \in 1..Len(market) :
              /\ i <= Len(market')
              /\ market'[i].key = market[i].key
              /\ market'[i].val # market[i].val =>
                    /\ last'.op = "add_stock"
                    /\ last'.obj = market'[i].val
                    /\ heap[last'.obj].symbol = market[i].key
      ]_vars

\* the index counted POP's first stock, whose trades the entry no longer reaches
C10_Witness ==
    /\ last.op = "add_stock"
    /\ last.obj = 3
    /\ market = <<[key |-> "POP", val |-> 3]>>
    /\ idx.pc = "idle"
    /\ idx.stocks = <<1>>
    /\ Gt0(idx.results[1])
    /\ heap[3].trades = <<>>

====
